---------------------------- MODULE Spec2Model ----------------------------
(***************************************************************************)
(* A model of kurt's cross-format object layer:                            *)
(*   - kurt/scratch14/user_objects.py : UserObject, the schema-driven      *)
(*     record with declared and "undefined-%i" extra fields;               *)
(*   - kurt/plugin.py : Kurt (plugin table, canonical block catalog) and   *)
(*     Feature (capability table and the workaround generators).           *)
(*                                                                         *)
(* Three specifications share the module: SpecRecord (one UserObject),     *)
(* Spec (the Kurt registry) and SpecFeature (the workaround generators).   *)
(* Text is modelled as sequences of one-character strings wherever the     *)
(* code formats, parses or changes the case of it.                         *)
(***************************************************************************)
EXTENDS Integers, Sequences, FiniteSets, TLC

VARIABLES
    obj,        \* the UserObject under test: [cls, fields, attrs, version]
    raw,        \* the field_values list the object was constructed from
    ret,        \* what the last record operation returned or raised
    plugins,    \* Kurt.plugins: OrderedDict name -> plugin, as a sequence of entries
    blocks,     \* Kurt.blocks: the canonical catalog, a sequence of BlockType
    pstate,     \* per plugin object: its features attribute and its blocks' format
    kret,       \* what the last Kurt.get_plugin call returned or raised
    calls,      \* the Kurt.register calls made so far, each with its outcome
    project,    \* the kurt.Project handed to a workaround
    gen,        \* the workaround generator in progress
    labels,     \* the labels the caller has received from gen
    project0,   \* the project as it was when gen was created
    runs        \* the generators created on the project before gen, and whether each was drained

recVars == <<obj, raw, ret>>
regVars == <<plugins, blocks, pstate, kret, calls>>
featVars == <<project, gen, labels, project0, runs>>
vars == <<obj, raw, ret, plugins, blocks, pstate, kret, calls, project, gen, labels, project0, runs>>

-----------------------------------------------------------------------------
(* Bounds of the model. *)

\* how many raw values beyond the declared fields a constructed record may carry
MaxExtra == 3

\* how many Kurt.register calls a behaviour makes
MaxRegs == 3

\* how many workaround generators are created on one project
MaxRuns == 2

-----------------------------------------------------------------------------
(* Text helpers. *)

DigitChars == <<"0", "1", "2", "3", "4", "5", "6", "7", "8", "9">>

IsDigit(c) == \E d \in 1..10 : DigitChars[d] = c

DigitValue(c) == (CHOOSE d \in 1..10 : DigitChars[d] = c) - 1

\* "%i" % i for i >= 0
RECURSIVE FormatInt(_)
FormatInt(i) ==
    IF i < 10 THEN <<DigitChars[i + 1]>>
    ELSE FormatInt(i \div 10) \o <<DigitChars[(i % 10) + 1]>>

\* str.split(sep): the pieces of s between occurrences of the character sep
RECURSIVE SplitFrom(_, _, _, _)
SplitFrom(s, sep, i, cur) ==
    IF i > Len(s) THEN <<cur>>
    ELSE IF s[i] = sep THEN <<cur>> \o SplitFrom(s, sep, i + 1, <<>>)
    ELSE SplitFrom(s, sep, i + 1, Append(cur, s[i]))

Split(s, sep) == SplitFrom(s, sep, 1, <<>>)

\* int(text) succeeds on a non-empty run of decimal digits
IsIntText(t) == Len(t) > 0 /\ \A i \in 1..Len(t) : IsDigit(t[i])

RECURSIVE IntOf(_)
IntOf(t) ==
    IF Len(t) = 0 THEN 0
    ELSE 10 * IntOf(SubSeq(t, 1, Len(t) - 1)) + DigitValue(t[Len(t)])

-----------------------------------------------------------------------------
(* Field names of the schemas used (class attribute _fields). *)

n_name == <<"n", "a", "m", "e">>
n_form == <<"f", "o", "r", "m">>
n_rotationCenter == <<"r", "o", "t", "a", "t", "i", "o", "n", "C", "e", "n", "t", "e", "r">>
n_textBox == <<"t", "e", "x", "t", "B", "o", "x">>
n_jpegBytes == <<"j", "p", "e", "g", "B", "y", "t", "e", "s">>
n_compositeForm == <<"c", "o", "m", "p", "o", "s", "i", "t", "e", "F", "o", "r", "m">>
n_bounds == <<"b", "o", "u", "n", "d", "s">>
n_owner == <<"o", "w", "n", "e", "r">>
n_submorphs == <<"s", "u", "b", "m", "o", "r", "p", "h", "s">>
n_color == <<"c", "o", "l", "o", "r">>
n_flags == <<"f", "l", "a", "g", "s">>
n_properties == <<"p", "r", "o", "p", "e", "r", "t", "i", "e", "s">>
n_borderWidth == <<"b", "o", "r", "d", "e", "r", "W", "i", "d", "t", "h">>
n_borderColor == <<"b", "o", "r", "d", "e", "r", "C", "o", "l", "o", "r">>
\* a name no schema of the model declares (ScriptableScratchMorph sets self.lists)
n_lists == <<"l", "i", "s", "t", "s">>
\* a name with a suffix that is no number
n_undefined_x == <<"u", "n", "d", "e", "f", "i", "n", "e", "d", "-", "x">>

BaseMorph_fields == <<n_bounds, n_owner, n_submorphs, n_color, n_flags, n_properties>>

Classes == {"UserObject", "ImageMedia", "BorderedMorph"}

\* cls._fields
Fields(cls) ==
    CASE cls = "UserObject" -> <<>>
      [] cls = "ImageMedia" ->
            <<n_name>> \o <<n_form, n_rotationCenter, n_textBox, n_jpegBytes, n_compositeForm>>
      [] cls = "BorderedMorph" -> BaseMorph_fields \o <<n_borderWidth, n_borderColor>>

\* cls._version
Version(cls) ==
    CASE cls = "UserObject" -> 1
      [] cls = "ImageMedia" -> 4
      [] cls = "BorderedMorph" -> 1

Range(s) == {s[i] : i \in 1..Len(s)}

None == "None"

\* "undefined-%i" % i
UndefinedName(i) == <<"u", "n", "d", "e", "f", "i", "n", "e", "d", "-">> \o FormatInt(i)

-----------------------------------------------------------------------------
(* UserObject. *)

Put(f, k, v) == [x \in (DOMAIN f) \cup {k} |-> IF x = k THEN v ELSE f[x]]

Remove(f, k) == [x \in (DOMAIN f) \ {k} |-> f[x]]

\* dict.update(other)
Update(f, g) == [x \in (DOMAIN f) \cup (DOMAIN g) |-> IF x \in DOMAIN g THEN g[x] ELSE f[x]]

EmptyDict == [x \in {} |-> None]

\* a __setattr__ that never stores into the field store
SetAttrPlainOnly(o, name, value) == [o EXCEPT !.attrs = Put(o.attrs, name, value)]

\* a __setattr__ that tests the field store instead of the schema
SetAttrAnyStored(o, name, value) ==
    IF name \in DOMAIN o.fields
    THEN [o EXCEPT !.fields = Put(o.fields, name, value)]
    ELSE [o EXCEPT !.attrs = Put(o.attrs, name, value)]

\* UserObject.__setattr__(self, name, value), as the object it leaves
SetAttr(o, name, value) ==
    IF name \in Range(Fields(o.cls))
    THEN [o EXCEPT !.fields = Put(o.fields, name, value)]
    ELSE [o EXCEPT !.attrs = Put(o.attrs, name, value)]

\* the assignments set_defaults makes, in order, as <<name, value>> pairs
DefaultAssignments(cls) ==
    CASE cls = "UserObject" -> <<>>
      [] cls = "ImageMedia" -> << <<n_rotationCenter, "Point(0, 0)">> >>
      [] cls = "BorderedMorph" ->
            << <<n_flags, "0">>, <<n_submorphs, "[]">>,
               <<n_color, "Color(1023, 1023, 1023)">>,
               <<n_bounds, "Rectangle([0, 0, 1, 1])">>,
               <<n_borderWidth, "1">>, <<n_borderColor, "Color(0, 0, 0)">> >>

RECURSIVE ApplyAssignments(_, _)
ApplyAssignments(o, as) ==
    IF as = <<>> THEN o
    ELSE ApplyAssignments(SetAttr(o, as[1][1], as[1][2]), Tail(as))

set_defaults(o) == ApplyAssignments(o, DefaultAssignments(o.cls))

\* zip(names, values) as a dict
ZipDict(names, values) ==
    LET m == IF Len(names) < Len(values) THEN Len(names) ELSE Len(values)
    IN  [x \in {names[i] : i \in 1..m} |->
            values[CHOOSE i \in 1..m : names[i] = x /\ \A j \in (i+1)..m : names[j] # x]]

\* a padding that numbers the synthetic names from zero
DefinedFieldsFromZero(cls, n) ==
    Fields(cls) \o [j \in 1..(IF n > Len(Fields(cls)) THEN n - Len(Fields(cls)) ELSE 0)
                        |-> UndefinedName(j - 1)]

\* the names the raw values are zipped to: _fields, then "undefined-%i"
DefinedFields(cls, n) ==
    Fields(cls) \o [j \in 1..(IF n > Len(Fields(cls)) THEN n - Len(Fields(cls)) ELSE 0)
                        |-> UndefinedName(Len(Fields(cls)) + j - 1)]

\* a constructor that takes named values for declared fields only
UserObject_init_declared_args(cls, field_values, kw) ==
    LET o0 == [cls |-> cls,
               fields |-> [x \in Range(Fields(cls)) |-> None],
               attrs |-> EmptyDict,
               version |-> IF kw.version # <<>> THEN kw.version[1] ELSE Version(cls)]
        o1 == set_defaults(o0)
        o2 == IF Len(field_values) > 0
              THEN [o1 EXCEPT !.fields =
                        Update(@, ZipDict(DefinedFields(cls, Len(field_values)), field_values))]
              ELSE o1
    IN  [o2 EXCEPT !.fields =
            Update(@, [x \in (DOMAIN kw.args) \cap Range(Fields(cls)) |-> kw.args[x]])]

\* UserObject.__init__(self, field_values, **args); kw.version is <<>> or <<v>>
UserObject_init(cls, field_values, kw) ==
    LET o0 == [cls |-> cls,
               fields |-> [x \in Range(Fields(cls)) |-> None],
               attrs |-> EmptyDict,
               version |-> IF kw.version # <<>> THEN kw.version[1] ELSE Version(cls)]
        o1 == set_defaults(o0)
        o2 == IF Len(field_values) > 0
              THEN [o1 EXCEPT !.fields =
                        Update(@, ZipDict(DefinedFields(cls, Len(field_values)), field_values))]
              ELSE o1
        o3 == [o2 EXCEPT !.fields = Update(@, kw.args)]
    IN  IF n_name \in DOMAIN o3.fields
        THEN SetAttr([o3 EXCEPT !.fields = Remove(@, n_name)], n_name, o3.fields[n_name])
        ELSE o3

\* the sort key of a leftover field: int(field.split('-')[1])
KeyOk(field) == Len(Split(field, "-")) >= 2 /\ IsIntText(Split(field, "-")[2])

\* the key a sort on the suffix text (not its number) would use
SortKeyAsText(field) ==
    LET t == Split(field, "-")[2]
        pad[k \in 0..3] == IF k = 0 THEN 1 ELSE 10 * pad[k - 1]
    IN  (IntOf(t) * pad[3 - Len(t)]) * 10 + Len(t)

SortKey(field) == IntOf(Split(field, "-")[2])

\* sorted(names, key=SortKey)
RECURSIVE SortedByKey(_)
SortedByKey(names) ==
    IF names = {} THEN <<>>
    ELSE LET first == CHOOSE x \in names : \A y \in names : SortKey(x) <= SortKey(y)
         IN  <<first>> \o SortedByKey(names \ {first})

\* whether every leftover name has a key, i.e. ordered_fields raises nothing
ordered_fields_ok(o) == \A x \in (DOMAIN o.fields) \ Range(Fields(o.cls)) : KeyOk(x)

\* what the sort key raises on a leftover name without a key: [1] of a one-piece
\* split is an IndexError, int() of a non-number a ValueError (of several such
\* names the one the sort meets first decides)
ordered_fields_error(o) ==
    LET x == CHOOSE x \in (DOMAIN o.fields) \ Range(Fields(o.cls)) : ~KeyOk(x)
    IN  IF Len(Split(x, "-")) < 2 THEN "IndexError" ELSE "ValueError"

\* UserObject.ordered_fields: the <<name, value>> pairs (when no key fails)
ordered_fields(o) ==
    LET names == Fields(o.cls)
        declared == [i \in 1..Len(names) |->
                        <<names[i],
                          IF names[i] \in DOMAIN o.fields THEN o.fields[names[i]] ELSE None>>]
        order == SortedByKey((DOMAIN o.fields) \ Range(names))
    IN  declared \o [i \in 1..Len(order) |-> <<order[i], o.fields[order[i]]>>]

\* UserObject.field_values
field_values(o) ==
    LET pairs == ordered_fields(o)
    IN  [i \in 1..Len(pairs) |-> pairs[i][2]]

\* UserObject._encode_field / _decode_field: the base class returns the value
encode_field(cls, name, value) == value

decode_field(cls, name, value) == value

\* the calls of the encode hook that to_construct makes: one for each position
\* below len(_fields), with the field's name and value
encode_calls(o) ==
    LET fv == field_values(o)
        m == IF Len(fv) < Len(Fields(o.cls)) THEN Len(fv) ELSE Len(Fields(o.cls))
    IN  [i \in 1..m |-> [name |-> Fields(o.cls)[i], value |-> fv[i]]]

\* a to_construct that writes the schema's version
to_construct_schema_version(o) ==
    LET fv == field_values(o)
    IN  [classID |-> o.cls,
         field_values |-> [i \in 1..Len(fv) |->
                             IF i <= Len(Fields(o.cls))
                             THEN encode_field(o.cls, Fields(o.cls)[i], fv[i])
                             ELSE fv[i]],
         length |-> Len(fv),
         version |-> Version(o.cls)]

\* UserObject.to_construct: the Container handed to the byte codec
to_construct(o) ==
    LET fv == field_values(o)
    IN  [classID |-> o.cls,
         field_values |-> [i \in 1..Len(fv) |->
                             IF i <= Len(Fields(o.cls))
                             THEN encode_field(o.cls, Fields(o.cls)[i], fv[i])
                             ELSE fv[i]],
         length |-> Len(fv),
         version |-> o.version]

\* a from_construct that hands the constructor the declared values only
from_construct_declared_only(c) ==
    UserObject_init(c.classID,
                    SubSeq(c.field_values, 1,
                           IF Len(c.field_values) < Len(Fields(c.classID))
                           THEN Len(c.field_values) ELSE Len(Fields(c.classID))),
                    [version |-> <<c.version>>, args |-> EmptyDict])

\* UserObject.from_construct(cls, obj, context), cls chosen by the Container's classID
from_construct(c) ==
    UserObject_init(c.classID, c.field_values, [version |-> <<c.version>>, args |-> EmptyDict])

\* the loop of built over the given names: the record it leaves and, for each
\* call of the decode hook, the field, the value handed to the hook and the
\* field store as it was at the call
RECURSIVE built_over(_, _, _)
built_over(o, names, hooks) ==
    IF names = <<>> THEN [obj |-> o, hooks |-> hooks]
    ELSE LET field == Head(names)
         IN  IF field \in DOMAIN o.fields
             THEN built_over([o EXCEPT !.fields[field] =
                                 decode_field(o.cls, field, o.fields[field])],
                             Tail(names),
                             Append(hooks, [name |-> field, value |-> o.fields[field],
                                            fields |-> o.fields]))
             ELSE built_over(o, Tail(names), hooks)

\* a built that walks the field store instead of the schema
built_stored(o) ==
    built_over(o, [i \in 1..Len(ordered_fields(o)) |-> ordered_fields(o)[i][1]], <<>>)

\* UserObject.built
built(o) == built_over(o, Fields(o.cls), <<>>)

\* decoding a Container: from_construct, then built on the record it returned
from_wire_form(c) == built(from_construct(c))

\* getattr(obj, name): Python finds an instance attribute first and calls
\* __getattr__ only when there is none
GetAttr(o, name) ==
    IF name \in DOMAIN o.attrs THEN [ok |-> TRUE, value |-> o.attrs[name]]
    ELSE IF name \in DOMAIN o.fields THEN [ok |-> TRUE, value |-> o.fields[name]]
    ELSE [ok |-> FALSE, value |-> "AttributeError"]

-----------------------------------------------------------------------------
(* The record specification: one UserObject, constructed from inputs, then  *)
(* read and written through its public surface.                             *)

\* the value Set writes, and the value a named override carries
SetValues == {"w"}

\* the i-th raw value of a decoded field list (0-based), all distinct
RawValue(i) == "v" \o ToString(i)

RawValues(n) == [i \in 1..n |-> RawValue(i - 1)]

\* the names the caller reads and writes: first and last declared field, the
\* first two synthetic names, and a name that is neither
SetNames(cls) ==
    LET k == Len(Fields(cls))
    IN  (IF k > 0 THEN {Fields(cls)[1], Fields(cls)[k]} ELSE {})
            \cup {UndefinedName(k), n_lists}

GetNames(cls) == SetNames(cls) \cup {UndefinedName(Len(Fields(cls)) + 1)}

\* the named overrides a constructor call may carry
ArgChoices(cls) ==
    LET k == Len(Fields(cls))
    IN  {EmptyDict, [x \in {n_lists} |-> "a"], [x \in {n_undefined_x} |-> "a"]}
            \cup (IF k > 0 THEN {[x \in {Fields(cls)[k]} |-> "a"]} ELSE {})

VersionChoices == {<<>>, <<2>>}

\* how many raw values a decoded record may carry: none, one fewer than the
\* schema declares, or the declared count and up to MaxExtra more
RawCounts(cls) ==
    LET k == Len(Fields(cls))
    IN  {0} \cup {n \in (k - 1)..(k + MaxExtra) : n >= 0}

NoGen == [kind |-> "none"]

NoProject == [stage |-> "none"]

InitRegistryIdle ==
    /\ plugins = <<>>
    /\ blocks = <<>>
    /\ pstate = <<>>
    /\ kret = [op |-> "none"]
    /\ calls = <<>>

InitFeatureIdle ==
    /\ project = NoProject
    /\ gen = NoGen
    /\ labels = <<>>
    /\ project0 = NoProject
    /\ runs = <<>>

InitRecordIdle ==
    /\ obj = [cls |-> "none"]
    /\ raw = [cls |-> "none"]
    /\ ret = [op |-> "none"]

InitRecord ==
    /\ \E cls \in Classes :
       \E n \in RawCounts(cls) :
       \E v \in VersionChoices :
       \E a \in ArgChoices(cls) :
          /\ raw = [cls |-> cls, field_values |-> RawValues(n),
                    kw |-> [version |-> v, args |-> a]]
          /\ obj = UserObject_init(cls, RawValues(n), [version |-> v, args |-> a])
    /\ ret = [op |-> "init"]
    /\ InitRegistryIdle
    /\ InitFeatureIdle

\* setattr(obj, name, value)
Set(name, value) ==
    /\ obj' = SetAttr(obj, name, value)
    /\ ret' = [op |-> "set", name |-> name, value |-> value]
    /\ UNCHANGED raw

\* getattr(obj, name)
Get(name) ==
    /\ ret' = [op |-> "get", name |-> name,
               ok |-> GetAttr(obj, name).ok, value |-> GetAttr(obj, name).value]
    /\ UNCHANGED <<obj, raw>>

\* obj.ordered_fields
OrderedFields ==
    /\ ret' = IF ordered_fields_ok(obj)
              THEN [op |-> "ordered_fields", ok |-> TRUE, value |-> ordered_fields(obj)]
              ELSE [op |-> "ordered_fields", ok |-> FALSE, value |-> ordered_fields_error(obj)]
    /\ UNCHANGED <<obj, raw>>

\* obj.to_construct(context)
ToConstruct ==
    /\ ret' = IF ordered_fields_ok(obj)
              THEN [op |-> "to_construct", ok |-> TRUE, value |-> to_construct(obj),
                    hooks |-> encode_calls(obj)]
              ELSE [op |-> "to_construct", ok |-> FALSE, value |-> ordered_fields_error(obj),
                    hooks |-> <<>>]
    /\ UNCHANGED <<obj, raw>>

\* cls.from_construct(obj.to_construct(context), context) replaces the object
RoundTrip ==
    /\ ordered_fields_ok(obj)
    /\ obj' = from_construct(to_construct(obj))
    /\ ret' = [op |-> "from_construct", ok |-> TRUE, value |-> field_values(obj)]
    /\ UNCHANGED raw

\* the record is encoded and decoded again, the decoder calling built
FromWireForm ==
    /\ ordered_fields_ok(obj)
    /\ obj' = from_wire_form(to_construct(obj)).obj
    /\ ret' = [op |-> "from_wire_form", ok |-> TRUE, value |-> to_construct(obj).field_values,
               hooks |-> from_wire_form(to_construct(obj)).hooks]
    /\ UNCHANGED raw

NextRecord ==
    \/ \E name \in SetNames(obj.cls), value \in SetValues :
          Set(name, value) /\ UNCHANGED regVars /\ UNCHANGED featVars
    \/ \E name \in GetNames(obj.cls) :
          Get(name) /\ UNCHANGED regVars /\ UNCHANGED featVars
    \/ OrderedFields /\ UNCHANGED regVars /\ UNCHANGED featVars
    \/ ToConstruct /\ UNCHANGED regVars /\ UNCHANGED featVars
    \/ RoundTrip /\ UNCHANGED regVars /\ UNCHANGED featVars
    \/ FromWireForm /\ UNCHANGED regVars /\ UNCHANGED featVars

SpecRecord == InitRecord /\ [][NextRecord]_vars

-----------------------------------------------------------------------------
(* Properties of the record (checked under SpecRecord). *)

\* the constructor call named only declared fields in its overrides
OverridesDeclaredOnly == DOMAIN raw.kw.args \subseteq Range(Fields(raw.cls))

\* the constructor call's raw values cover every declared field
RawCoversSchema == Len(raw.field_values) >= Len(Fields(raw.cls))

\* the names ordered_fields ought to yield for n raw values
ExpectedNames(cls, n) ==
    [i \in 1..n |-> IF i <= Len(Fields(cls)) THEN Fields(cls)[i] ELSE UndefinedName(i - 1)]

\* C3: a record built from raw values covering the k declared fields plus
\* extras (three in the claim) yields, after any sequence of Set calls, the
\* declared names in schema order and then the extras in ascending numeric
\* order of their suffix, each with the value the field store holds for it.
C3_FieldOrdering ==
    (RawCoversSchema /\ OverridesDeclaredOnly) =>
        /\ ordered_fields_ok(obj)
        /\ LET pairs == ordered_fields(obj)
               n == Len(raw.field_values)
           IN  /\ [i \in 1..Len(pairs) |-> pairs[i][1]] = ExpectedNames(obj.cls, n)
               /\ \A i \in 1..Len(pairs) : pairs[i][2] = obj.fields[pairs[i][1]]
               /\ \A i, j \in (Len(Fields(obj.cls)) + 1)..Len(pairs) :
                     i < j => IntOf(Split(pairs[i][1], "-")[2]) < IntOf(Split(pairs[j][1], "-")[2])

\* C3 witness: an eight-field record with extras 8, 9 and 10, after Set calls on
\* a declared and on an undeclared name, has just been asked for its fields.
C3_Witness ==
    /\ ret.op = "ordered_fields"
    /\ ret.ok
    /\ obj.cls = "BorderedMorph"
    /\ Len(raw.field_values) = Len(Fields(obj.cls)) + 3
    /\ raw.kw.args = EmptyDict
    /\ obj.fields[n_borderColor] = "w"
    /\ obj.fields[n_bounds] = "w"
    /\ n_lists \in DOMAIN obj.attrs
    /\ ret.value[10][1] = UndefinedName(9)
    /\ ret.value[11][1] = UndefinedName(10)

\* C4: from_construct(to_construct(r)) has the same ordered field values as r,
\* element for element, with or without extra fields (the hooks being the
\* base class's).
C4_RoundTrip ==
    /\ ordered_fields_ok(obj) =>
          /\ ordered_fields_ok(from_construct(to_construct(obj)))
          /\ field_values(from_construct(to_construct(obj))) = field_values(obj)
    /\ ret.op = "from_construct" => field_values(obj) = ret.value

\* C4 witness: a round trip has just rebuilt a record that carries extra
\* fields and a value written by Set.
C4_Witness ==
    /\ ret.op = "from_construct"
    /\ Len(Fields(obj.cls)) > 0
    /\ Len(ret.value) = Len(Fields(obj.cls)) + 3
    /\ ret.value[1] = "w"
    /\ field_values(obj) = ret.value

\* C5: every extra field created by raw construction stays at its position in
\* ordered_fields with its raw value, whatever Get, Set, ordered_fields and
\* round trips have been performed since.
C5_ExtraPreserved ==
    OverridesDeclaredOnly =>
        \A i \in (Len(Fields(raw.cls)) + 1)..Len(raw.field_values) :
            /\ ordered_fields_ok(obj)
            /\ Len(ordered_fields(obj)) >= i
            /\ ordered_fields(obj)[i] = <<UndefinedName(i - 1), raw.field_values[i]>>

\* C5 witness: the first extra field's own name has been the target of a Set,
\* and the record still holds three extras.
C5_Witness ==
    /\ Len(raw.field_values) = Len(Fields(raw.cls)) + 3
    /\ OverridesDeclaredOnly
    /\ ret.op = "get"
    /\ UndefinedName(Len(Fields(raw.cls))) \in DOMAIN obj.attrs
    /\ UndefinedName(Len(Fields(raw.cls))) \in DOMAIN obj.fields

\* C8 (as claimed): on a record whose constructor overrides named declared
\* fields only, Get(name) returns the value the field store holds under name
\* whenever name is in the field store, and fails when name is neither in the
\* field store nor set on the record.
C8_GetReturnsStoredField ==
    (ret.op = "get" /\ OverridesDeclaredOnly) =>
        /\ ret.name \in DOMAIN obj.fields =>
              (ret.ok /\ ret.value = obj.fields[ret.name])
        /\ (ret.name \notin DOMAIN obj.fields /\ ret.name \notin DOMAIN obj.attrs) =>
              ~ret.ok

\* C9: Set(name, value) with a declared name stores value in the declared slot,
\* where ordered_fields shows it at the name's schema position; with any other
\* name (a synthetic name present in the field store included) it stores a plain
\* attribute and leaves the field store and ordered_fields as they were.
C9_SetTwoTier ==
    [][(ret'.op = "set" /\ <<obj, ret>>' # <<obj, ret>>) =>
        LET name == ret'.name
            value == ret'.value
            names == Fields(obj.cls)
        IN  IF name \in Range(names)
            THEN /\ name \in DOMAIN obj'.fields
                 /\ obj'.fields[name] = value
                 /\ obj'.attrs = obj.attrs
                 /\ ordered_fields_ok(obj') =>
                       \A i \in 1..Len(names) :
                          names[i] = name => ordered_fields(obj')[i] = <<name, value>>
            ELSE /\ name \in DOMAIN obj'.attrs
                 /\ obj'.attrs[name] = value
                 /\ obj'.fields = obj.fields
                 /\ ordered_fields_ok(obj') = ordered_fields_ok(obj)
                 /\ ordered_fields_ok(obj) => ordered_fields(obj') = ordered_fields(obj)
    ]_vars

\* C9 witness: Set has just been called with the name of an extra field that
\* is in the field store; the store keeps the raw value.
C9_Witness ==
    /\ ret.op = "set"
    /\ ret.name = UndefinedName(Len(Fields(obj.cls)))
    /\ ret.name \in DOMAIN obj.fields
    /\ obj.attrs[ret.name] = "w"
    /\ obj.fields[ret.name] # "w"
    /\ Len(Fields(obj.cls)) > 0
    /\ obj.fields[Fields(obj.cls)[1]] = "w"

\* what C15 says of record o, constructed of schema cls from raw values vals
\* and named overrides args
Constructed(o, cls, vals, args) ==
    LET k == Len(Fields(cls))
        n == Len(vals)
        NameAt(i) == IF i < k THEN Fields(cls)[i + 1] ELSE UndefinedName(i)
        extras == {x \in DOMAIN o.fields : x \notin Range(Fields(cls)) /\ x \notin DOMAIN args}
    IN  /\ \A i \in 0..(n - 1) :
              /\ NameAt(i) \in DOMAIN o.fields
              /\ o.fields[NameAt(i)] =
                    IF NameAt(i) \in DOMAIN args THEN args[NameAt(i)] ELSE vals[i + 1]
        /\ extras = {UndefinedName(i) : i \in k..(n - 1)}
        /\ Cardinality(extras) = IF n > k THEN n - k ELSE 0
        /\ \A x \in DOMAIN args : x \in DOMAIN o.fields /\ o.fields[x] = args[x]

\* C15: a record of a schema with k declared fields constructed from n raw
\* values holds raw value i under declared name i for i < min(k, n) and under
\* "undefined-i" for k <= i < n, so it has max(n - k, 0) extra fields; a named
\* override replaces the raw value stored under its name.  (Checked of the
\* record the constructor has just returned, directly or inside from_construct.)
C15_RawConstruction ==
    /\ ret.op = "init" => Constructed(obj, raw.cls, raw.field_values, raw.kw.args)
    /\ ret.op = "from_construct" => Constructed(obj, obj.cls, ret.value, EmptyDict)

\* C15 witness: an eight-field record constructed from eleven raw values and
\* an override of its last declared field.
C15_Witness ==
    /\ ret.op = "init"
    /\ obj.cls = "BorderedMorph"
    /\ Len(raw.field_values) = 11
    /\ DOMAIN raw.kw.args = {n_borderColor}
    /\ obj.fields[n_borderColor] = "a"
    /\ obj.fields[n_borderWidth] = "v6"
    /\ obj.fields[UndefinedName(8)] = "v8"
    /\ obj.fields[UndefinedName(10)] = "v10"
    /\ Cardinality(DOMAIN obj.fields) = 11

\* C17: decoding constructs the whole record from the raw values and then
\* calls the decode hook once for each declared field, in schema order, and
\* for no extra field; at each call every declared field and every extra is in
\* the store (the fields the raw values cover holding their raw or decoded
\* value), and the record returned holds, under each declared name, what the
\* hook returned for it, and its extras as they were constructed.
C17_DecodeAfterConstruction ==
    ret.op = "from_wire_form" =>
        LET names == Fields(obj.cls)
            k == Len(names)
            n == Len(ret.value)
            covered == IF n < k THEN n ELSE k
        IN  /\ [i \in 1..Len(ret.hooks) |-> ret.hooks[i].name] = names
            /\ \A i \in 1..Len(ret.hooks) :
                  /\ Range(names) \subseteq DOMAIN ret.hooks[i].fields
                  /\ DOMAIN ret.hooks[i].fields = DOMAIN obj.fields
                  /\ \A h \in 1..covered :
                        ret.hooks[i].fields[names[h]] =
                            IF h < i THEN decode_field(obj.cls, names[h], ret.value[h])
                            ELSE ret.value[h]
                  /\ \A h \in (k + 1)..n : ret.hooks[i].fields[UndefinedName(h - 1)] = ret.value[h]
                  /\ obj.fields[names[i]] = decode_field(obj.cls, names[i], ret.hooks[i].value)
            /\ \A h \in 1..covered : ret.hooks[h].value = ret.value[h]
            /\ \A h \in (k + 1)..n : obj.fields[UndefinedName(h - 1)] = ret.value[h]

\* C17 witness: an eight-field record with three extras has been decoded; the
\* hook ran eight times and saw the extras in the store at its first call.
C17_Witness ==
    /\ ret.op = "from_wire_form"
    /\ obj.cls = "BorderedMorph"
    /\ Len(ret.value) = 11
    /\ Len(ret.hooks) = 8
    /\ ret.hooks[1].name = n_bounds
    /\ UndefinedName(10) \in DOMAIN ret.hooks[1].fields
    /\ ret.hooks[8].value = ret.value[8]

\* name has the synthetic form: "undefined-" and a decimal number
IsSynthetic(name) ==
    /\ Len(name) > 10
    /\ SubSeq(name, 1, 10) = <<"u", "n", "d", "e", "f", "i", "n", "e", "d", "-">>
    /\ \A i \in 11..Len(name) : name[i] \in {"0", "1", "2", "3", "4", "5", "6", "7", "8", "9"}

\* name has an integer after its first "-", up to the next "-" or its end
HasIntSuffix(name) ==
    \E i \in 1..Len(name) :
        /\ name[i] = "-"
        /\ \A h \in 1..(i - 1) : name[h] # "-"
        /\ \E e \in (i + 1)..Len(name) :
              /\ e = Len(name) \/ name[e + 1] = "-"
              /\ \A h \in (i + 1)..e : name[h] \in {"0", "1", "2", "3", "4", "5", "6", "7", "8", "9"}

\* the names in the field store that the schema does not declare
NonDeclared == (DOMAIN obj.fields) \ Range(Fields(obj.cls))

\* C18: a named override of a name the schema does not declare puts that name
\* in the field store; while the store holds a non-declared name without a
\* parseable integer suffix, ordered_fields and to_construct raise an error and
\* return nothing; while every non-declared name has the synthetic form, they
\* succeed.
C18_MalformedName ==
    /\ \A x \in DOMAIN raw.kw.args :
          (x \notin Range(Fields(raw.cls)) /\ x # n_name) => x \in NonDeclared
    /\ ret.op \in {"ordered_fields", "to_construct"} =>
          /\ (\E x \in NonDeclared : ~HasIntSuffix(x)) =>
                (~ret.ok /\ ret.value \in {"IndexError", "ValueError"})
          /\ (\A x \in NonDeclared : IsSynthetic(x)) => ret.ok

\* C18 witness: to_construct has failed on a record that holds three synthetic
\* extras and the override name "lists".
C18_Witness ==
    /\ ret.op = "to_construct"
    /\ ~ret.ok
    /\ ret.value = "IndexError"
    /\ n_lists \in NonDeclared
    /\ Cardinality(NonDeclared) = 4
    /\ Len(Fields(obj.cls)) = 8

\* the version the constructor call set: the one given, else the schema's
ConstructedVersion == IF raw.kw.version # <<>> THEN raw.kw.version[1] ELSE Version(raw.cls)

\* C20: to_construct returns the values of ordered_fields, in order, each
\* declared position holding what the encode hook returned for that field's
\* value and each extra position the extra's value as it is; the hook is called
\* for the declared positions only; the length is the number of values and
\* the version is the record's, which is the schema's unless one was given at
\* construction.
C20_ToWireForm ==
    (ret.op = "to_construct" /\ ret.ok) =>
        LET c == ret.value
            pairs == ordered_fields(obj)
            names == Fields(obj.cls)
        IN  /\ c.classID = obj.cls
            /\ Len(c.field_values) = Len(pairs)
            /\ [i \in 1..Len(ret.hooks) |-> ret.hooks[i].name] = names
            /\ \A i \in 1..Len(pairs) :
                  IF i <= Len(names)
                  THEN /\ ret.hooks[i].value = pairs[i][2]
                       /\ c.field_values[i] = encode_field(obj.cls, names[i], pairs[i][2])
                  ELSE /\ c.field_values[i] = pairs[i][2]
                       /\ c.field_values[i] = obj.fields[pairs[i][1]]
            /\ c.length = Len(c.field_values)
            /\ c.version = obj.version
            /\ c.version = ConstructedVersion

\* C20 witness: a six-field record constructed with version 2 and three extras
\* has been encoded after a Set on its first field.
C20_Witness ==
    /\ ret.op = "to_construct"
    /\ ret.ok
    /\ obj.cls = "ImageMedia"
    /\ raw.kw.version = <<2>>
    /\ ret.value.version = 2
    /\ ret.value.length = 9
    /\ ret.value.field_values[1] = "w"
    /\ ret.value.field_values[9] = "v8"
    /\ Len(ret.hooks) = 6

-----------------------------------------------------------------------------
(* Kurt: the plugin table and the canonical block catalog (kurt/plugin.py). *)

UpperChars == <<"A", "B", "C", "D", "E", "F", "G", "H", "I", "J", "K", "L", "M",
                "N", "O", "P", "Q", "R", "S", "T", "U", "V", "W", "X", "Y", "Z">>

LowerChars == <<"a", "b", "c", "d", "e", "f", "g", "h", "i", "j", "k", "l", "m",
                "n", "o", "p", "q", "r", "s", "t", "u", "v", "w", "x", "y", "z">>

\* str.lower()
Lower(t) ==
    [i \in 1..Len(t) |->
        IF \E k \in 1..26 : UpperChars[k] = t[i]
        THEN LowerChars[CHOOSE k \in 1..26 : UpperChars[k] = t[i]]
        ELSE t[i]]

e_sb == <<".", "s", "b">>
e_SB == <<".", "S", "B">>
e_sb2 == <<".", "s", "b", "2">>
e_xml == <<".", "x", "m", "l">>

\* Feature.FEATURES once kurt/plugin.py is imported
FEATURES == {"Vector Images", "Stage-specific Variables", "Custom Blocks"}

\* display texts, as the plugins' block definitions spell them
t_move == <<"m", "o", "v", "e", " ", "%", "n">>
t_Move == <<"M", "o", "v", "e", "%", "n">>
t_MOVE == <<"M", "O", "V", "E", " ", " ", "%", "n">>
t_turn == <<"t", "u", "r", "n">>
t_stop == <<"s", "t", "o", "p">>

\* the text attribute of the block definition that carries the given command
BlockText(command) ==
    CASE command = "move" -> t_move
      [] command = "forward:" -> t_Move
      [] command = "go" -> t_MOVE
      [] command = "turn" -> t_turn
      [] OTHER -> <<>>

\* a TranslatedBlockType as register and the lookups read it: its command, its
\* _match and its text
Tbt(command, match) == [command |-> command, match |-> match, text |-> BlockText(command)]

\* an absent (None) slot of a plugin's block list
NoTbt == Tbt(None, None)

PluginIds == {"p14", "p20", "pBad", "p14b", "pSnap"}

\* the KurtPlugin objects handed to register: class attributes name,
\* display_name, extension, features, blocks
PluginDefs ==
    [id \in PluginIds |->
        CASE id = "p14" ->
                [name |-> "scratch14", display_name |-> "Scratch 1.4", extension |-> e_sb,
                 features |-> <<>>,
                 blocks |-> <<Tbt("move", None), NoTbt>>]
          [] id = "p20" ->
                [name |-> "scratch20", display_name |-> "Scratch 2.0", extension |-> e_sb2,
                 features |-> <<"Vector Images", "Stage-specific Variables", "Custom Blocks">>,
                 blocks |-> <<Tbt("forward:", "move")>>]
          [] id = "pBad" ->
                [name |-> "byob3", display_name |-> "BYOB 3.1", extension |-> e_sb,
                 features |-> <<"Vector Images", "Vector Graphics">>,
                 blocks |-> <<Tbt("jump", None)>>]
          [] id = "p14b" ->
                [name |-> "scratch14", display_name |-> "Scratch 1.4", extension |-> e_SB,
                 features |-> <<>>,
                 blocks |-> <<NoTbt, Tbt("turn", None)>>]
          [] id = "pSnap" ->
                [name |-> "snap", display_name |-> "Snap!", extension |-> e_xml,
                 features |-> <<"Custom Blocks">>,
                 blocks |-> <<Tbt("go", None), Tbt("turn", "move"), Tbt("hide", "show")>>]]

\* a table that takes every assignment as a new entry
OrderedDictAppend(d, key, value) == Append(d, [key |-> key, value |-> value])

\* OrderedDict.__setitem__: a new key goes last, a known key keeps its place
OrderedDictSet(d, key, value) ==
    IF \E i \in 1..Len(d) : d[i].key = key
    THEN [i \in 1..Len(d) |-> IF d[i].key = key THEN [key |-> key, value |-> value] ELSE d[i]]
    ELSE Append(d, [key |-> key, value |-> value])

\* map(Feature.get, features) that resolves nothing until it is iterated
ResolveFeaturesLazily(feats) == [ok |-> TRUE, features |-> feats]

\* map(Feature.get, plugin.features): a Feature passes through, a name is looked
\* up in FEATURES, and an unknown name raises KeyError before anything is assigned
ResolveFeatures(feats) ==
    IF \A i \in 1..Len(feats) : feats[i].resolved \/ feats[i].name \in FEATURES
    THEN [ok |-> TRUE,
          features |-> [i \in 1..Len(feats) |-> [resolved |-> TRUE, name |-> feats[i].name]]]
    ELSE [ok |-> FALSE, features |-> feats]

\* BlockType.has_command(command): some translation has this command
has_command(bt, command) ==
    \E i \in 1..Len(bt.translations) : bt.translations[i].value.command = command

\* BlockType._add_translation(format, tbt): the format's translation is attached;
\* a block that has a translation of the format keeps it, its canonical
\* identity being its first-registered command
add_translation(bt, format, tbt) ==
    IF \E i \in 1..Len(bt.translations) : bt.translations[i].key = format
    THEN bt
    ELSE [bt EXCEPT !.translations = Append(@, [key |-> format, value |-> tbt])]

\* kurt.BlockType(tbt), tbt.format being the registering plugin's name
BlockType(format, tbt) == [translations |-> <<[key |-> format, value |-> tbt]>>]

\* a match test that looks for the definition's own command only
MatchesCommandOnly(bt, tbt) == has_command(bt, tbt.command)

\* the test register applies to each canonical block
Matches(bt, tbt) == has_command(bt, tbt.command) \/ has_command(bt, tbt.match)

\* filter(None, plugin.blocks)
NewBlocks(tbts) == SelectSeq(tbts, LAMBDA t : t # NoTbt)

\* an "add blocks" loop that appends every definition it cannot match
RECURSIVE AddBlocksAppendUnmatched(_, _, _)
AddBlocksAppendUnmatched(bs, format, tbts) ==
    IF tbts = <<>> THEN [blocks |-> bs, ok |-> TRUE, error |-> None]
    ELSE LET tbt == Head(tbts)
             hits == {i \in 1..Len(bs) : Matches(bs[i], tbt)}
             first == CHOOSE i \in hits : \A j \in hits : i <= j
         IN  IF hits # {}
             THEN AddBlocksAppendUnmatched([bs EXCEPT ![first] = add_translation(@, format, tbt)],
                                           format, Tail(tbts))
             ELSE AddBlocksAppendUnmatched(Append(bs, BlockType(format, tbt)), format, Tail(tbts))

\* the "add blocks" loop of register: the catalog it leaves and how it ended
RECURSIVE AddBlocks(_, _, _)
AddBlocks(bs, format, tbts) ==
    IF tbts = <<>> THEN [blocks |-> bs, ok |-> TRUE, error |-> None]
    ELSE LET tbt == Head(tbts)
             hits == {i \in 1..Len(bs) : Matches(bs[i], tbt)}
             first == CHOOSE i \in hits : \A j \in hits : i <= j
         IN  IF hits # {}
             THEN AddBlocks([bs EXCEPT ![first] = add_translation(@, format, tbt)],
                            format, Tail(tbts))
             ELSE IF tbt.match # None /\ tbt.match # ""
             THEN [blocks |-> bs, ok |-> FALSE, error |-> "ValueError: Couldn't match"]
             ELSE AddBlocks(Append(bs, BlockType(format, tbt)), format, Tail(tbts))

\* getattr(plugin, key)
PluginAttr(id, key) ==
    CASE key = "name" -> PluginDefs[id].name
      [] key = "extension" -> PluginDefs[id].extension
      [] key = "display_name" -> PluginDefs[id].display_name

\* Kurt.get_plugin(name, **kwargs) on plugin table tbl
get_plugin(tbl, q) ==
    IF q.kind = "plugin" THEN [ok |-> TRUE, value |-> q.plugin]
    ELSE LET kw1 == IF "extension" \in DOMAIN q.kwargs
                    THEN [q.kwargs EXCEPT !["extension"] = Lower(@)]
                    ELSE q.kwargs
             kw2 == IF q.name # None /\ q.name # "" THEN Put(kw1, "name", q.name) ELSE kw1
             hits == {i \in 1..Len(tbl) :
                        \A key \in DOMAIN kw2 : PluginAttr(tbl[i].value, key) = kw2[key]}
         IN  IF DOMAIN kw2 = {} THEN [ok |-> FALSE, value |-> "ValueError: No arguments"]
             ELSE IF hits = {} THEN [ok |-> FALSE, value |-> "ValueError: Unknown format"]
             ELSE [ok |-> TRUE, value |-> tbl[CHOOSE i \in hits : \A j \in hits : i <= j].value]

\* the None that block_by_command returns; a BlockType object is named by its
\* position in the catalog
NoBlock == 0

\* a scan that keeps the last block it finds
block_by_command_last(bs, command) ==
    LET hits == {i \in 1..Len(bs) : has_command(bs[i], command)}
    IN  IF hits = {} THEN NoBlock ELSE CHOOSE i \in hits : \A j \in hits : j <= i

\* Kurt.block_by_command(command) on catalog bs
block_by_command(bs, command) ==
    LET hits == {i \in 1..Len(bs) : has_command(bs[i], command)}
    IN  IF hits = {} THEN NoBlock ELSE CHOOSE i \in hits : \A j \in hits : i <= j

\* BlockType._strip_text(text): lower case, whitespace removed
strip_text(text) == Lower(SelectSeq(text, LAMBDA c : c # " "))

\* TranslatedBlockType.stripped_text
stripped_text(tbt) == strip_text(tbt.text)

\* the translations of block bt whose stripped text is t
TextHits(bt, t) == {k \in 1..Len(bt.translations) : stripped_text(bt.translations[k].value) = t}

\* a scan that appends the block once per matching translation
RECURSIVE blocks_by_text_no_break(_, _)
blocks_by_text_no_break(bs, text) ==
    IF bs = <<>> THEN <<>>
    ELSE blocks_by_text_no_break(SubSeq(bs, 1, Len(bs) - 1), text)
            \o [k \in 1..Cardinality(TextHits(bs[Len(bs)], strip_text(text))) |-> Len(bs)]

\* Kurt.blocks_by_text(text) on catalog bs: the matches list
blocks_by_text(bs, text) ==
    SelectSeq([i \in 1..Len(bs) |-> i], LAMBDA i : TextHits(bs[i], strip_text(text)) # {})

\* the commands and texts a caller looks up
CommandQueries == {"move", "turn", "jump"}

TextQueries == {t_Move, t_turn, t_stop}

\* the keyword criteria a caller passes
KwChoices ==
    {Update(x, d) :
        x \in {EmptyDict} \cup {[k \in {"extension"} |-> e] : e \in {e_sb, e_SB}},
        d \in {EmptyDict, [k \in {"display_name"} |-> "Scratch 1.4"]}}

Queries ==
    {[kind |-> "plugin", plugin |-> id] : id \in {"p14", "pBad"}}
        \cup {[kind |-> "criteria", name |-> n, kwargs |-> kw] :
                n \in {None, "scratch14"}, kw \in KwChoices}
        \cup {[kind |-> "criteria", name |-> n, kwargs |-> EmptyDict] : n \in {"snap", "byob3"}}

InitRegistry ==
    /\ plugins = <<>>
    /\ blocks = <<>>
    /\ pstate = [id \in PluginIds |->
                    [features |-> [i \in 1..Len(PluginDefs[id].features) |->
                                      [resolved |-> FALSE, name |-> PluginDefs[id].features[i]]],
                     format |-> None]]
    /\ kret = [op |-> "none"]
    /\ calls = <<>>
    /\ InitRecordIdle
    /\ InitFeatureIdle

\* a register that undoes its work when it fails
RegisterRollback(p) ==
    /\ Len(calls) < MaxRegs
    /\ LET res == ResolveFeatures(pstate[p].features)
           added == AddBlocks(blocks, PluginDefs[p].name, NewBlocks(PluginDefs[p].blocks))
       IN  IF ~res.ok
           THEN /\ plugins' = plugins
                /\ blocks' = blocks
                /\ pstate' = pstate
                /\ calls' = Append(calls, [plugin |-> p, ok |-> FALSE, error |-> "KeyError"])
           ELSE /\ plugins' = IF added.ok THEN OrderedDictSet(plugins, PluginDefs[p].name, p)
                              ELSE plugins
                /\ blocks' = IF added.ok THEN added.blocks ELSE blocks
                /\ pstate' = [pstate EXCEPT ![p] = [features |-> res.features,
                                                    format |-> PluginDefs[p].name]]
                /\ calls' = Append(calls, [plugin |-> p, ok |-> added.ok, error |-> added.error])
    /\ UNCHANGED kret

\* Kurt.register(plugin)
Register(p) ==
    /\ Len(calls) < MaxRegs
    /\ plugins' = OrderedDictSet(plugins, PluginDefs[p].name, p)
    /\ LET res == ResolveFeatures(pstate[p].features)
           added == AddBlocks(blocks, PluginDefs[p].name, NewBlocks(PluginDefs[p].blocks))
       IN  IF ~res.ok
           THEN /\ blocks' = blocks
                /\ pstate' = pstate
                /\ calls' = Append(calls, [plugin |-> p, ok |-> FALSE, error |-> "KeyError"])
           ELSE /\ blocks' = added.blocks
                /\ pstate' = [pstate EXCEPT ![p] = [features |-> res.features,
                                                    format |-> PluginDefs[p].name]]
                /\ calls' = Append(calls, [plugin |-> p, ok |-> added.ok, error |-> added.error])
    /\ UNCHANGED kret

\* Kurt.get_plugin(name, **kwargs)
GetPlugin(q) ==
    /\ kret' = [op |-> "get_plugin", query |-> q,
                ok |-> get_plugin(plugins, q).ok, value |-> get_plugin(plugins, q).value]
    /\ UNCHANGED <<plugins, blocks, pstate, calls>>

\* Kurt.block_by_command(command)
BlockByCommand(command) ==
    /\ kret' = [op |-> "block_by_command", query |-> command,
                ok |-> TRUE, value |-> block_by_command(blocks, command)]
    /\ UNCHANGED <<plugins, blocks, pstate, calls>>

\* Kurt.blocks_by_text(text)
BlocksByText(text) ==
    /\ kret' = [op |-> "blocks_by_text", query |-> text,
                ok |-> TRUE, value |-> blocks_by_text(blocks, text)]
    /\ UNCHANGED <<plugins, blocks, pstate, calls>>

Next ==
    \/ \E p \in PluginIds : Register(p) /\ UNCHANGED recVars /\ UNCHANGED featVars
    \/ \E q \in Queries : GetPlugin(q) /\ UNCHANGED recVars /\ UNCHANGED featVars
    \/ \E c \in CommandQueries : BlockByCommand(c) /\ UNCHANGED recVars /\ UNCHANGED featVars
    \/ \E t \in TextQueries : BlocksByText(t) /\ UNCHANGED recVars /\ UNCHANGED featVars

Spec == InitRegistry /\ [][Next]_vars

-----------------------------------------------------------------------------
(* Properties of the registry (checked under Spec). *)

LastCall == calls[Len(calls)]

\* the step is a call of lookup op (a call that leaves everything as it was,
\* its own result included, is no step)
Called(op) == kret'.op = op /\ (kret.op # op \/ kret' # kret)

\* the formats of a block's translations, in the order they were attached
Formats(bt) == [i \in 1..Len(bt.translations) |-> bt.translations[i].key]

\* C1: from an empty catalog, registering the plugin that owns "move" and then
\* the plugin whose definition declares match-hint "move" leaves one canonical
\* block with the two translations, keyed by the two plugin names; registering
\* the second plugin while no block has command "move" fails with the
\* could-not-match error (and merges nothing).
C1_BlockMerge ==
    /\ [](  (Len(calls) = 2 /\ calls[1].plugin = "p14" /\ calls[2].plugin = "p20")
            => /\ calls[1].ok /\ calls[2].ok
               /\ Len(blocks) = 1
               /\ Formats(blocks[1]) = <<"scratch14", "scratch20">>
               /\ blocks[1].translations[1].value = Tbt("move", None)
               /\ blocks[1].translations[2].value = Tbt("forward:", "move")  )
    /\ [][ (calls' # calls /\ calls'[Len(calls')].plugin = "p20"
                /\ ~\E i \in 1..Len(blocks) : has_command(blocks[i], "move"))
            => /\ ~calls'[Len(calls')].ok
               /\ calls'[Len(calls')].error = "ValueError: Couldn't match"
               /\ blocks' = blocks ]_vars

\* C1 witness: exactly the two registrations, in the order owner then matcher.
C1_Witness ==
    /\ Len(calls) = 2
    /\ calls[1].plugin = "p14"
    /\ calls[2].plugin = "p20"
    /\ Len(blocks) = 1
    /\ Len(blocks[1].translations) = 2

\* C2: a register call on a plugin whose capability list holds a name that is
\* not in the capability table fails with the lookup error and leaves the
\* catalog exactly as it was (same length, same blocks, same translations).
C2_CapabilityGate ==
    [][ (calls' # calls
            /\ \E i \in 1..Len(pstate[calls'[Len(calls')].plugin].features) :
                  LET f == pstate[calls'[Len(calls')].plugin].features[i]
                  IN  ~f.resolved /\ f.name \notin FEATURES)
        => /\ ~calls'[Len(calls')].ok
           /\ calls'[Len(calls')].error = "KeyError"
           /\ Len(blocks') = Len(blocks)
           /\ blocks' = blocks ]_vars

\* C2 witness: the plugin with the unknown capability has just failed to
\* register against a catalog that already holds a merged block.
C2_Witness ==
    /\ Len(calls) = 3
    /\ LastCall.plugin = "pBad"
    /\ ~LastCall.ok
    /\ LastCall.error = "KeyError"
    /\ Len(blocks) = 1
    /\ Len(blocks[1].translations) = 2

\* the table positions whose plugin satisfies every criterion of query q, the
\* extension compared without regard to letter case
Satisfying(q) ==
    {i \in 1..Len(plugins) :
        /\ q.name # None => PluginDefs[plugins[i].value].name = q.name
        /\ "extension" \in DOMAIN q.kwargs =>
              Lower(PluginDefs[plugins[i].value].extension) = Lower(q.kwargs["extension"])
        /\ "display_name" \in DOMAIN q.kwargs =>
              PluginDefs[plugins[i].value].display_name = q.kwargs["display_name"]}

\* the table positions whose plugin's attributes equal the criteria of q exactly
Equalling(q) ==
    {i \in 1..Len(plugins) :
        /\ q.name # None => PluginDefs[plugins[i].value].name = q.name
        /\ \A key \in DOMAIN q.kwargs : PluginAttr(plugins[i].value, key) = q.kwargs[key]}

\* C10 (as claimed): get_plugin returns a plugin argument as it is; given
\* criteria it fails when none is supplied or when no registered plugin
\* satisfies them all, and otherwise returns the first plugin in table order
\* that satisfies them; in particular it succeeds whenever some registered
\* plugin's attributes equal every supplied criterion exactly.  (Stated of the
\* get_plugin step, which leaves the table as it found it.)
C10_GetPluginFirstMatch ==
    [][ (Called("get_plugin")) =>
        LET q == kret'.query
        IN  IF q.kind = "plugin" THEN kret'.ok /\ kret'.value = q.plugin
            ELSE IF q.name = None /\ DOMAIN q.kwargs = {} THEN ~kret'.ok
            ELSE /\ Satisfying(q) = {} => ~kret'.ok
                 /\ Equalling(q) # {} => kret'.ok
                 /\ kret'.ok => \E i \in Satisfying(q) :
                                   /\ kret'.value = plugins[i].value
                                   /\ \A j \in Equalling(q) : i <= j ]_vars

\* C11 (as claimed): when some registered plugin's extension equals the query
\* extension Q up to letter case, get_plugin(extension=Q) succeeds and returns
\* a plugin whose extension equals Q up to letter case, whatever the case of
\* the letters in either.
C11_ExtensionAnyCase ==
    [][ (Called("get_plugin") /\ kret'.query.kind = "criteria"
            /\ kret'.query.name = None /\ DOMAIN kret'.query.kwargs = {"extension"}) =>
        LET Q == kret'.query.kwargs["extension"]
        IN  (\E i \in 1..Len(plugins) :
                Lower(PluginDefs[plugins[i].value].extension) = Lower(Q))
            => /\ kret'.ok
               /\ Lower(PluginDefs[kret'.value].extension) = Lower(Q) ]_vars

\* the catalog positions of the blocks one of whose translations has command c
Having(c) ==
    {i \in 1..Len(blocks) :
        \E k \in 1..Len(blocks[i].translations) : blocks[i].translations[k].value.command = c}

\* C12: block_by_command(command) raises nothing; it returns the first block in
\* catalog order one of whose translations has the command, and the not-found
\* value when no block has it; the catalog is left as it was.
C12_BlockByCommand ==
    [][ (Called("block_by_command")) =>
        LET c == kret'.query
            v == kret'.value
        IN  /\ kret'.ok
            /\ Having(c) = {} => v = NoBlock
            /\ Having(c) # {} => (v \in Having(c) /\ \A j \in Having(c) : v <= j)
            /\ blocks' = blocks
            /\ Len(blocks') = Len(blocks) ]_vars

\* C12 witness: "turn" has been looked up in a catalog whose first and second
\* block both have it, and the first was returned.
C12_Witness ==
    /\ kret.op = "block_by_command"
    /\ kret.query = "turn"
    /\ kret.value = 1
    /\ Len(blocks) >= 2
    /\ Having("turn") = {1, 2}

\* the catalog positions of the blocks with a translation whose text, lower-cased
\* and with its spaces removed, equals the query treated the same way
TextMatching(text) ==
    {i \in 1..Len(blocks) :
        \E k \in 1..Len(blocks[i].translations) :
            Lower(SelectSeq(blocks[i].translations[k].value.text, LAMBDA c : c # " "))
                = Lower(SelectSeq(text, LAMBDA c : c # " "))}

\* C13: blocks_by_text(text) returns exactly the blocks that have at least one
\* translation whose normalized text equals the normalized query: all of them,
\* no other, each once however many of its translations match, in catalog
\* order.
C13_BlocksByText ==
    [][ (Called("blocks_by_text")) =>
        LET v == kret'.value
        IN  /\ Range(v) = TextMatching(kret'.query)
            /\ Len(v) = Cardinality(TextMatching(kret'.query))
            /\ \A a, b \in 1..Len(v) : a < b => v[a] < v[b]
            /\ blocks' = blocks ]_vars

\* C13 witness: a query differing from every stored text in case and spacing
\* has returned two blocks, the first of which matches in two translations.
C13_Witness ==
    /\ kret.op = "blocks_by_text"
    /\ kret.query = t_Move
    /\ kret.value = <<1, 2>>
    /\ Len(blocks) >= 2
    /\ Cardinality(TextHits(blocks[1], strip_text(t_Move))) = 2
    /\ blocks[1].translations[1].value.text = t_move
    /\ blocks[2].translations[1].value.text = t_MOVE

\* the calls that registered a plugin of the given name
CallsNamed(name) == {i \in 1..Len(calls) : PluginDefs[calls[i].plugin].name = name}

\* C14: a register call on a plugin whose name is already in the plugin table
\* fails for no reason but an unknown capability or an unmatched match-hint,
\* and leaves the table with one entry for the name, holding the plugin just
\* registered, every other entry being as and where it was; get_plugin by that
\* name then returns the plugin registered last under it.
C14_ReRegisterReplaces ==
    /\ [][ (calls' # calls
              /\ \E i \in 1..Len(plugins) :
                    plugins[i].key = PluginDefs[calls'[Len(calls')].plugin].name) =>
           LET call == calls'[Len(calls')]
               def == PluginDefs[call.plugin]
           IN  /\ ~call.ok =>
                     \/ call.error = "KeyError"
                           /\ \E i \in 1..Len(def.features) : def.features[i] \notin FEATURES
                     \/ call.error = "ValueError: Couldn't match"
                           /\ \E i \in 1..Len(def.blocks) :
                                 def.blocks[i] # NoTbt /\ def.blocks[i].match # None
               /\ Len(plugins') = Len(plugins)
               /\ Cardinality({i \in 1..Len(plugins') : plugins'[i].key = def.name}) = 1
               /\ \A i \in 1..Len(plugins) :
                     IF plugins[i].key = def.name
                     THEN plugins'[i] = [key |-> def.name, value |-> call.plugin]
                     ELSE plugins'[i] = plugins[i] ]_vars
    /\ [][ (Called("get_plugin") /\ kret'.query.kind = "criteria"
              /\ kret'.query.name # None /\ DOMAIN kret'.query.kwargs = {}
              /\ CallsNamed(kret'.query.name) # {}) =>
           /\ kret'.ok
           /\ kret'.value = calls[CHOOSE i \in CallsNamed(kret'.query.name) :
                                     \A j \in CallsNamed(kret'.query.name) : j <= i].plugin ]_vars

\* C14 witness: the name "scratch14" was registered first and, two calls later,
\* again with another plugin; the table has two entries and get_plugin by that
\* name has returned the later plugin.
C14_Witness ==
    /\ Len(calls) = 3
    /\ calls[1].plugin = "p14"
    /\ calls[3].plugin = "p14b"
    /\ calls[3].ok
    /\ Len(plugins) = 2
    /\ plugins[1] = [key |-> "scratch14", value |-> "p14b"]
    /\ kret.op = "get_plugin"
    /\ kret.query.kind = "criteria"
    /\ kret.query.name = "scratch14"
    /\ DOMAIN kret.query.kwargs = {}
    /\ kret.value = "p14b"

Contains(bt, command) ==
    \E k \in 1..Len(bt.translations) : bt.translations[k].value.command = command

\* C21: a register call that fails leaves the plugin in the plugin table under
\* its name, where get_plugin by that name finds it; a call that fails on the
\* capability lookup leaves the catalog as it was, and a call that fails on the
\* match-hint of its i-th definition leaves the catalog as definitions 1..i-1
\* made it: each of them has a block holding the plugin's format and the
\* definition's command or match-hint, and no block or translation is lost.
C21_NoRollback ==
    /\ [][ (calls' # calls /\ ~calls'[Len(calls')].ok) =>
           LET call == calls'[Len(calls')]
               def == PluginDefs[call.plugin]
               defs == SelectSeq(def.blocks, LAMBDA t : t.command # None)
           IN  /\ \E i \in 1..Len(plugins') :
                     plugins'[i] = [key |-> def.name, value |-> call.plugin]
               /\ get_plugin(plugins', [kind |-> "criteria", name |-> def.name,
                                        kwargs |-> EmptyDict])
                     = [ok |-> TRUE, value |-> call.plugin]
               /\ call.error = "KeyError" => blocks' = blocks
               /\ call.error = "ValueError: Couldn't match" =>
                     \E i \in 1..Len(defs) :
                        /\ defs[i].match # None
                        /\ \A h \in 1..Len(blocks') :
                              ~Contains(blocks'[h], defs[i].command)
                                 /\ ~Contains(blocks'[h], defs[i].match)
                        /\ blocks' = AddBlocks(blocks, def.name, SubSeq(defs, 1, i - 1)).blocks
                        /\ \A d \in 1..(i - 1) :
                              \E h \in 1..Len(blocks') :
                                 /\ def.name \in Range(Formats(blocks'[h]))
                                 /\ Contains(blocks'[h], defs[d].command)
                                       \/ Contains(blocks'[h], defs[d].match)
                        /\ Len(blocks') >= Len(blocks)
                        /\ \A h \in 1..Len(blocks) :
                              \A k \in 1..Len(blocks[h].translations) :
                                 blocks'[h].translations[k] = blocks[h].translations[k] ]_vars
    /\ [][ (Called("get_plugin") /\ kret'.query.kind = "criteria"
              /\ kret'.query.name # None /\ DOMAIN kret'.query.kwargs = {}
              /\ \E i \in CallsNamed(kret'.query.name) : ~calls[i].ok) =>
           /\ kret'.ok
           /\ PluginDefs[kret'.value].name = kret'.query.name ]_vars

\* C21 witness: the plugin "snap" failed on the match-hint of its third
\* definition; the block its first definition appended and the translation
\* its second attached are in the catalog, and get_plugin by name has
\* returned the plugin.
C21_Witness ==
    /\ Len(calls) = 2
    /\ calls[1].plugin = "p14"
    /\ calls[2] = [plugin |-> "pSnap", ok |-> FALSE, error |-> "ValueError: Couldn't match"]
    /\ Len(blocks) = 2
    /\ Formats(blocks[1]) = <<"scratch14", "snap">>
    /\ blocks[1].translations[2].value = Tbt("turn", "move")
    /\ Formats(blocks[2]) = <<"snap">>
    /\ blocks[2].translations[1].value = Tbt("go", None)
    /\ kret.op = "get_plugin"
    /\ kret.query.kind = "criteria"
    /\ kret.query.name = "snap"
    /\ kret.ok
    /\ kret.value = "pSnap"

-----------------------------------------------------------------------------
(* Feature workarounds: generators over a kurt.Project (kurt/plugin.py).    *)
(* One action is one next() call of the caller on the generator.            *)

RED == <<255, 0, 0>>

\* kurt.Image.new(size, fill): a raster image of one colour, of no file format
ImageNew(size, fill) == [format |-> None, size |-> size, color |-> fill]

PLACEHOLDER == ImageNew(<<32, 32>>, RED)

\* an image decoded from a file of the given format
FileImage(format) == [format |-> format, size |-> <<480, 360>>, color |-> <<0, 0, 0>>]

ImageFormats == {"SVG", "PNG"}

CostumeName(id) == "costume" \o ToString(id)

\* which costume objects the stage and the sprites hold; costume 2 of the
\* third layout is one object held by the stage and by a sprite
CostumeLayouts ==
    { [stage |-> <<1>>, sprites |-> <<>>],
      [stage |-> <<>>, sprites |-> << <<1>> >>],
      [stage |-> <<1>>, sprites |-> << <<2, 3>> >>],
      [stage |-> <<1, 2>>, sprites |-> << <<2>>, <<3>> >>] }

CostumeIds(layout) ==
    Range(layout.stage) \cup UNION {Range(layout.sprites[i]) : i \in 1..Len(layout.sprites)}

StageVariableChoices ==
    {EmptyDict, [n \in {"a"} |-> "1"], [n \in {"a", "b"} |-> IF n = "a" THEN "1" ELSE "2"]}

GlobalVariableChoices == {EmptyDict, [n \in {"a"} |-> "2"]}

\* stage-local and global lists
ListChoices ==
    { [stage |-> EmptyDict, global |-> EmptyDict],
      [stage |-> [n \in {"l"} |-> "[1]"], global |-> [n \in {"l", "m"} |-> "[2]"]] }

\* [project.stage] + project.sprites
ScriptablesSpritesOnly(proj) == proj.sprites

Scriptables(proj) == <<proj.stage>> \o proj.sprites

\* the next costume in SVG format at or after costume ci of scriptable si, in
\* the order of the two nested loops; <<0, 0>> when there is none
RECURSIVE ScanVector(_, _, _)
ScanVector(proj, si, ci) ==
    LET scr == Scriptables(proj)
    IN  IF si > Len(scr) THEN <<0, 0>>
        ELSE IF ci > Len(scr[si].costumes) THEN ScanVector(proj, si + 1, 1)
        ELSE IF proj.costume[scr[si].costumes[ci]].image.format = "SVG" THEN <<si, ci>>
        ELSE ScanVector(proj, si, ci + 1)

\* "%s - %s" % (scriptable.name, costume.name)
VectorLabel(proj, at) ==
    LET s == Scriptables(proj)[at[1]]
    IN  <<s.name, " - ", proj.costume[s.costumes[at[2]]].name>>

\* project.variables.update(project.stage.variables) with the operands swapped
MergeKeepingGlobals(globals, locals) == Update(locals, globals)

\* project.variables.update(project.stage.variables), and the same for lists
MergeNamespaces(globals, locals) == Update(globals, locals)

InitFeature ==
    /\ \E layout \in CostumeLayouts :
       \E fmt \in [CostumeIds(layout) -> ImageFormats] :
       \E sv \in StageVariableChoices :
       \E gv \in GlobalVariableChoices :
       \E ls \in ListChoices :
          project = [stage |-> [name |-> "Stage", costumes |-> layout.stage,
                                variables |-> sv, lists |-> ls.stage],
                     sprites |-> [i \in 1..Len(layout.sprites) |->
                                    [name |-> "Sprite" \o ToString(i),
                                     costumes |-> layout.sprites[i]]],
                     variables |-> gv,
                     lists |-> ls.global,
                     costume |-> [id \in CostumeIds(layout) |->
                                    [name |-> CostumeName(id), image |-> FileImage(fmt[id])]]]
    /\ gen = NoGen
    /\ labels = <<>>
    /\ project0 = project
    /\ runs = <<>>
    /\ InitRecordIdle
    /\ InitRegistryIdle

\* the generators created so far, the one in progress included
RunsWithCurrent ==
    IF gen.kind = "none" THEN runs
    ELSE Append(runs, [kind |-> gen.kind, drained |-> gen.state = "done"])

\* feature.workaround(project): calling the generator function runs none of it
Start(kind) ==
    /\ Len(RunsWithCurrent) < MaxRuns
    /\ runs' = RunsWithCurrent
    /\ gen' = [kind |-> kind, state |-> "created", at |-> <<0, 0>>, left |-> {}]
    /\ labels' = <<>>
    /\ project0' = project
    /\ UNCHANGED project

\* a next() that replaces each costume as it labels it
VectorNextEager ==
    /\ gen.kind = "vector"
    /\ gen.state # "done"
    /\ LET hit == IF gen.state = "created" THEN ScanVector(project, 1, 1)
                  ELSE ScanVector(project, gen.at[1], gen.at[2] + 1)
       IN  IF hit = <<0, 0>>
           THEN /\ gen' = [gen EXCEPT !.state = "done"]
                /\ labels' = labels
                /\ project' = project
           ELSE /\ gen' = [gen EXCEPT !.state = "suspended", !.at = hit]
                /\ labels' = Append(labels, VectorLabel(project, hit))
                /\ project' = [project EXCEPT
                                 !.costume[Scriptables(project)[hit[1]].costumes[hit[2]]].image
                                     = PLACEHOLDER]
    /\ UNCHANGED <<project0, runs>>

\* next() on the "Vector Images" workaround
VectorNext ==
    /\ gen.kind = "vector"
    /\ gen.state # "done"
    /\ LET p1 == IF gen.state = "suspended"
                 THEN [project EXCEPT
                         !.costume[Scriptables(project)[gen.at[1]].costumes[gen.at[2]]].image
                             = PLACEHOLDER]
                 ELSE project
           hit == IF gen.state = "created" THEN ScanVector(p1, 1, 1)
                  ELSE ScanVector(p1, gen.at[1], gen.at[2] + 1)
       IN  /\ project' = p1
           /\ IF hit = <<0, 0>>
              THEN /\ gen' = [gen EXCEPT !.state = "done"]
                   /\ labels' = labels
              ELSE /\ gen' = [gen EXCEPT !.state = "suspended", !.at = hit]
                   /\ labels' = Append(labels, VectorLabel(p1, hit))
    /\ UNCHANGED <<project0, runs>>

\* a next() that moves each variable and list as it labels it
HoistNextEager ==
    /\ gen.kind = "hoist"
    /\ gen.state # "done"
    /\ LET ph0 == IF gen.state = "created" THEN "variables" ELSE gen.state
           left0 == IF gen.state = "created" THEN DOMAIN project.stage.variables ELSE gen.left
           ph1 == IF ph0 = "variables" /\ left0 = {} THEN "lists" ELSE ph0
           left1 == IF ph0 = "variables" /\ left0 = {} THEN DOMAIN project.stage.lists ELSE left0
       IN  IF left1 # {}
           THEN /\ \E n \in left1 :
                     /\ labels' = Append(labels,
                                    <<IF ph1 = "variables" THEN "variable " ELSE "list ", n>>)
                     /\ gen' = [gen EXCEPT !.state = ph1, !.left = left1 \ {n}]
                     /\ project' =
                           IF ph1 = "variables"
                           THEN [project EXCEPT
                                   !.variables = Put(@, n, project.stage.variables[n])]
                           ELSE [project EXCEPT !.lists = Put(@, n, project.stage.lists[n])]
           ELSE /\ project' = [project EXCEPT !.stage.variables = EmptyDict,
                                              !.stage.lists = EmptyDict]
                /\ gen' = [gen EXCEPT !.state = "done", !.left = {}]
                /\ labels' = labels
    /\ UNCHANGED <<project0, runs>>

\* next() on the "Stage-specific Variables" workaround; items() of a dict come
\* in an order the caller does not control
HoistNext ==
    /\ gen.kind = "hoist"
    /\ gen.state # "done"
    /\ LET ph0 == IF gen.state = "created" THEN "variables" ELSE gen.state
           left0 == IF gen.state = "created" THEN DOMAIN project.stage.variables ELSE gen.left
           ph1 == IF ph0 = "variables" /\ left0 = {} THEN "lists" ELSE ph0
           left1 == IF ph0 = "variables" /\ left0 = {} THEN DOMAIN project.stage.lists ELSE left0
       IN  IF left1 # {}
           THEN /\ \E n \in left1 :
                     /\ labels' = Append(labels,
                                    <<IF ph1 = "variables" THEN "variable " ELSE "list ", n>>)
                     /\ gen' = [gen EXCEPT !.state = ph1, !.left = left1 \ {n}]
                /\ project' = project
           ELSE /\ project' =
                     [project EXCEPT
                        !.variables = MergeNamespaces(project.variables, project.stage.variables),
                        !.lists = MergeNamespaces(project.lists, project.stage.lists),
                        !.stage.variables = EmptyDict,
                        !.stage.lists = EmptyDict]
                /\ gen' = [gen EXCEPT !.state = "done", !.left = {}]
                /\ labels' = labels
    /\ UNCHANGED <<project0, runs>>

NextFeature ==
    \/ \E kind \in {"vector", "hoist"} : Start(kind) /\ UNCHANGED recVars /\ UNCHANGED regVars
    \/ VectorNext /\ UNCHANGED recVars /\ UNCHANGED regVars
    \/ HoistNext /\ UNCHANGED recVars /\ UNCHANGED regVars

SpecFeature == InitFeature /\ [][NextFeature]_vars

-----------------------------------------------------------------------------
(* Properties of the workarounds (checked under SpecFeature). *)

Drained(kind) == gen.kind = kind /\ gen.state = "done"

\* the costumes that were in vector form when the generator was created
Vector0 == {id \in DOMAIN project0.costume : project0.costume[id].image.format = "SVG"}

\* C6: when the vector-image workaround has been drained, every costume of the
\* stage and of the sprites that was in vector form holds the placeholder
\* (32 by 32, one fixed colour), every other costume and the rest of the
\* project are as before, and there is one label per replaced costume; a drain
\* that follows a drained run yields no label and changes nothing.
C6_VectorDegrade ==
    Drained("vector") =>
        /\ \A id \in DOMAIN project.costume :
              /\ project.costume[id].name = project0.costume[id].name
              /\ IF id \in Vector0
                 THEN /\ project.costume[id].image = PLACEHOLDER
                      /\ project.costume[id].image.size = <<32, 32>>
                      /\ project.costume[id].image.color = <<255, 0, 0>>
                      /\ project.costume[id].image.format # "SVG"
                 ELSE project.costume[id].image = project0.costume[id].image
        /\ [project EXCEPT !.costume = project0.costume] = project0
        /\ Len(labels) = Cardinality(Vector0)
        /\ \A id \in Vector0 :
              Cardinality({i \in 1..Len(labels) : labels[i][3] = project0.costume[id].name}) = 1
        /\ (runs # <<>> /\ runs[Len(runs)] = [kind |-> "vector", drained |-> TRUE]) =>
              (labels = <<>> /\ project = project0)

\* C6 witness: the second of two drained runs has ended on a project in which
\* the first run replaced a stage costume and a sprite costume and left a
\* raster costume alone.
C6_Witness ==
    /\ Drained("vector")
    /\ runs = <<[kind |-> "vector", drained |-> TRUE]>>
    /\ Len(project.sprites) = 2
    /\ project.costume[1].image = PLACEHOLDER
    /\ project.costume[2].image = FileImage("PNG")
    /\ project.costume[3].image = PLACEHOLDER
    /\ labels = <<>>

\* the names of b override those of a
Overridden(a, b, result) ==
    /\ DOMAIN result = (DOMAIN a) \cup (DOMAIN b)
    /\ \A n \in DOMAIN result : result[n] = IF n \in DOMAIN b THEN b[n] ELSE a[n]

\* C7: when the local-variable workaround has been drained there is one label
\* per stage-local variable and one per stage-local list, the global variables
\* are the old globals overridden by the old stage variables (a colliding name
\* takes the stage value), the global lists likewise, and both stage-local
\* namespaces are empty.
C7_LocalHoist ==
    Drained("hoist") =>
        /\ Len(labels) = Cardinality(DOMAIN project0.stage.variables)
                            + Cardinality(DOMAIN project0.stage.lists)
        /\ \A n \in DOMAIN project0.stage.variables :
              Cardinality({i \in 1..Len(labels) : labels[i] = <<"variable ", n>>}) = 1
        /\ \A n \in DOMAIN project0.stage.lists :
              Cardinality({i \in 1..Len(labels) : labels[i] = <<"list ", n>>}) = 1
        /\ Overridden(project0.variables, project0.stage.variables, project.variables)
        /\ Overridden(project0.lists, project0.stage.lists, project.lists)
        /\ project.stage.variables = EmptyDict
        /\ project.stage.lists = EmptyDict

\* C7 witness: a drained hoist on a project whose stage variable "a" collided
\* with a global "a" of another value, and whose stage list collided too.
C7_Witness ==
    /\ Drained("hoist")
    /\ DOMAIN project0.stage.variables = {"a", "b"}
    /\ "a" \in DOMAIN project0.variables
    /\ project0.variables["a"] # project0.stage.variables["a"]
    /\ project.variables["a"] = "1"
    /\ project.variables["b"] = "2"
    /\ DOMAIN project0.stage.lists = {"l"}
    /\ project.lists["l"] = "[1]"
    /\ project.lists["m"] = "[2]"
    /\ Len(labels) = 3

\* the <<scriptable name, costume>> pairs of project0 in the order the stage's
\* costumes and then each sprite's are visited
RECURSIVE SpriteVisits(_)
SpriteVisits(n) ==
    IF n = 0 THEN <<>>
    ELSE SpriteVisits(n - 1)
            \o [c \in 1..Len(project0.sprites[n].costumes) |->
                    <<project0.sprites[n].name, project0.sprites[n].costumes[c]>>]

Visits ==
    [c \in 1..Len(project0.stage.costumes) |-> <<project0.stage.name, project0.stage.costumes[c]>>]
        \o SpriteVisits(Len(project0.sprites))

\* the visits that find a costume in vector form for the first time, in order
VectorVisits ==
    SelectSeq([i \in 1..Len(Visits) |-> i],
              LAMBDA i : /\ Visits[i][2] \in Vector0
                         /\ \A h \in 1..(i - 1) : Visits[h][2] # Visits[i][2])

\* C16: creating the vector-image label sequence changes nothing; when the
\* caller holds j labels and the sequence has not ended, the labels are those of
\* the first j vector costumes in stage-then-sprites order, exactly the first
\* j - 1 of them have been replaced, and the j-th and every later one is as it
\* was (so a caller that stops there leaves them unreplaced).
C16_VectorLazy ==
    gen.kind = "vector" =>
        /\ gen.state = "created" => (project = project0 /\ labels = <<>>)
        /\ gen.state = "suspended" =>
              LET j == Len(labels)
              IN  /\ j >= 1
                  /\ j <= Len(VectorVisits)
                  /\ \A h \in 1..j :
                        labels[h] = <<Visits[VectorVisits[h]][1], " - ",
                                      project0.costume[Visits[VectorVisits[h]][2]].name>>
                  /\ \A h \in 1..Len(VectorVisits) :
                        LET id == Visits[VectorVisits[h]][2]
                        IN  IF h <= j - 1
                            THEN project.costume[id].image = PLACEHOLDER
                            ELSE /\ project.costume[id].image = project0.costume[id].image
                                 /\ project.costume[id].image.format = "SVG"
                  /\ \A id \in (DOMAIN project.costume) \ Vector0 :
                        project.costume[id] = project0.costume[id]

\* C16 witness: the caller holds two of three labels; the stage's costume is
\* replaced and the sprite's two vector costumes are not.
C16_Witness ==
    /\ gen.kind = "vector"
    /\ gen.state = "suspended"
    /\ Len(labels) = 2
    /\ Len(VectorVisits) = 3
    /\ project.costume[1].image = PLACEHOLDER
    /\ project.costume[2].image.format = "SVG"
    /\ project.costume[3].image.format = "SVG"
    /\ labels[2] = <<"Sprite1", " - ", "costume2">>

\* how many labels the hoist yields for the project it was created on
HoistLabels0 ==
    Cardinality(DOMAIN project0.stage.variables) + Cardinality(DOMAIN project0.stage.lists)

\* C22: while the local-variable hoist has not been asked for an element past
\* its last label (the state right after the last label included), the
\* project's global and stage-local variables and lists are as they were when
\* it was created; they change in one step only, the request past the last
\* label, which yields no label, merges both namespaces and clears both
\* stage-local ones.
C22_HoistAtExhaustion ==
    /\ []( (gen.kind = "hoist" /\ gen.state # "done") =>
              /\ Len(labels) <= HoistLabels0
              /\ project.variables = project0.variables
              /\ project.lists = project0.lists
              /\ project.stage.variables = project0.stage.variables
              /\ project.stage.lists = project0.stage.lists )
    /\ [][ (gen.kind = "hoist" /\ gen'.kind = "hoist" /\ project' # project) =>
              /\ gen.state # "done"
              /\ gen'.state = "done"
              /\ Len(labels) = HoistLabels0
              /\ labels' = labels
              /\ Overridden(project.variables, project.stage.variables, project'.variables)
              /\ Overridden(project.lists, project.stage.lists, project'.lists)
              /\ project'.stage.variables = EmptyDict
              /\ project'.stage.lists = EmptyDict ]_vars

\* C22 witness: the caller holds all three labels and has not asked for more;
\* the stage still has its two variables and its list, and the colliding
\* global "a" its own value.
C22_Witness ==
    /\ gen.kind = "hoist"
    /\ gen.state # "done"
    /\ Len(labels) = 3
    /\ HoistLabels0 = 3
    /\ DOMAIN project.stage.variables = {"a", "b"}
    /\ DOMAIN project.stage.lists = {"l"}
    /\ "a" \in DOMAIN project.variables
    /\ project.variables["a"] = "2"
    /\ project.stage.variables["a"] = "1"
    /\ project = project0

=============================================================================
